---------------------------- MODULE Spec2Model ----------------------------
(***************************************************************************)
(* A model of virtscope's TemplateApp (src/src/app.rs): the persisted      *)
(* oscilloscope settings, the per-frame handler `update` (side-panel       *)
(* widgets, scroll-wheel zoom, drag panning, grid layout, per-pixel        *)
(* waveform sampler), `new`/`save`, and the buffer generator               *)
(* `generate_waveform`.                                                    *)
(*                                                                         *)
(* Numbers.  The program's f32 quantities are modelled as exact rationals: *)
(* a pair <<n, d>> in lowest terms with d > 0 (Q(n) is <<n, 1>>).  f32     *)
(* rounding is not modelled.  Angles are kept in turns: a quantity r       *)
(* radians of the source is the rational r / (2*pi), so `2*pi*f*t` is      *)
(* f*t and `(2/pi) * angle` is 4 * angle.  sin and asin are the            *)
(* piecewise-linear interpolants of a 15-degree table in thousandths,      *)
(* exact at the multiples of 30 degrees where the sine is rational.        *)
(***************************************************************************)
EXTENDS Integers, Sequences, FiniteSets, TLC

VARIABLES
    waveform,   \* TemplateApp.waveform: the sample buffer
    app,        \* the other fields of TemplateApp
    storage,    \* the host framework's persisted blob under APP_KEY
    sampled,    \* the sampler's inputs as read by the last update, or "none"
    dragSum,    \* history: sum of the drag deltas since the last Reset Pan or startup
    rect,       \* the viewport of the frame whose painter output is recorded
    painted,    \* the painter output recorded for that frame, or "none"
    probe       \* the inputs and outputs of one evaluation of the two samplers

vars == <<waveform, app, storage, sampled, dragSum, rect, painted, probe>>

---------------------------------------------------------------------------
(* Exact rational arithmetic standing for f32 arithmetic.                  *)

Abs(z) == IF z < 0 THEN -z ELSE z

\* the pairs that stand for numbers
Rat == Int \X (Nat \ {0})

Gcd[ga \in Nat, gb \in Nat] == IF gb = 0 THEN ga ELSE Gcd[gb, ga % gb]
GCD(ga, gb) == Gcd[ga, gb]

Num(p) == p[1]
Den(p) == p[2]

\* the integer z
Q(z) == <<z, 1>>

\* zn/zd in lowest terms, zd # 0
Lowest[zn \in Int, zd \in Int] ==
    LET g == Gcd[Abs(zn), Abs(zd)]
        s == IF zd < 0 THEN -1 ELSE 1
    IN  <<(s * zn) \div g, (s * zd) \div g>>
Norm(zn, zd) == Lowest[zn, zd]

RNeg(p) == <<-Num(p), Den(p)>>

Sum[p \in Rat, q \in Rat] ==
    LET g == Gcd[p[2], q[2]]
    IN  Lowest[p[1] * (q[2] \div g) + q[1] * (p[2] \div g), (p[2] \div g) * q[2]]
RAdd(p, q) == Sum[p, q]

RSub(p, q) == RAdd(p, RNeg(q))

Product[p \in Rat, q \in Rat] ==
    LET g1 == Gcd[Abs(p[1]), q[2]]
        g2 == Gcd[Abs(q[1]), p[2]]
    IN  Lowest[(p[1] \div g1) * (q[1] \div g2), (p[2] \div g2) * (q[2] \div g1)]
RMul(p, q) == Product[p, q]

\* p / q, q # 0
RDiv(p, q) == RMul(p, Norm(Den(q), Num(q)))

Less[p \in Rat, q \in Rat] ==
    LET g == Gcd[p[2], q[2]]
    IN  p[1] * (q[2] \div g) < q[1] * (p[2] \div g)
RLt(p, q) == Less[p, q]

RLe(p, q) == ~RLt(q, p)

RMin(p, q) == IF RLt(q, p) THEN q ELSE p
RMax(p, q) == IF RLt(p, q) THEN q ELSE p

\* f32::clamp
RClamp(p, lo, hi) == RMax(lo, RMin(p, hi))

\* f32::floor and f32::ceil followed by `as isize`
RFloor(p) == Num(p) \div Den(p)
RCeil(p) == -((-Num(p)) \div Den(p))

\* f32::rem_euclid(1.0): the fractional part, in [0, 1) for either sign
RemEuclid1(p) == RSub(p, Q(RFloor(p)))

\* the `%` remainder, whose sign follows the dividend
RemTrunc1(p) == IF RLt(p, Q(0)) THEN RNeg(RemEuclid1(RNeg(p))) ELSE RemEuclid1(p)

---------------------------------------------------------------------------
(* sin and asin.                                                           *)

\* 1000 * sin at 0, 15, 30, 45, 60, 75, 90 degrees
SinTab == <<0, 259, 500, 707, 866, 966, 1000>>

\* 1000 * sin(knot * 15 degrees), knot in 0..24
SinKnot(knot) ==
    IF knot <= 6 THEN SinTab[knot + 1]
    ELSE IF knot <= 12 THEN SinTab[12 - knot + 1]
    ELSE IF knot <= 18 THEN -SinTab[knot - 12 + 1]
    ELSE -SinTab[24 - knot + 1]

\* f32::sin of an angle of `turns` turns
Sin(turns) ==
    LET pos == RMul(Q(24), RemEuclid1(turns))
        seg == RFloor(pos)
        th == RSub(pos, Q(seg))
    IN  RDiv(RAdd(Q(SinKnot(seg)), RMul(th, Q(SinKnot(seg + 1) - SinKnot(seg)))),
             Q(1000))

\* f32::asin of sine in [-1, 1], in turns (in [-1/4, 1/4])
Asin(sine) ==
    LET mag == RMul(Q(1000), IF RLt(sine, Q(0)) THEN RNeg(sine) ELSE sine)
        seg == CHOOSE c \in 0..6 :
                /\ RLe(Q(SinTab[c + 1]), mag)
                /\ (c = 6 \/ RLt(mag, Q(SinTab[c + 2])))
        pos == IF seg = 6 THEN Q(6)
               ELSE RAdd(Q(seg), RDiv(RSub(mag, Q(SinTab[seg + 1])),
                                      Q(SinTab[seg + 2] - SinTab[seg + 1])))
        angle == RDiv(pos, Q(24))
    IN  IF RLt(sine, Q(0)) THEN RNeg(angle) ELSE angle

---------------------------------------------------------------------------
(* The two waveform samplers.                                              *)

WaveformType == {"Sine", "Square", "Triangle"}

\* `phase = 2.0 * PI * freq * t`, in turns
Phase(freq, secs) == RMul(freq, secs)

\* mutant of UpdateSample: the square wave's tie at a zero crossing is negative
UpdateSampleStrict(waveform_type, amplitude, phase) ==
    CASE waveform_type = "Sine" -> RMul(amplitude, Sin(phase))
      [] waveform_type = "Square" ->
            IF RLt(Q(0), Sin(phase)) THEN amplitude ELSE RNeg(amplitude)
      [] waveform_type = "Triangle" ->
            LET triangle_phase == Asin(RClamp(RMul(Q(2), Sin(phase)), Q(-1), Q(1)))
            IN  RMul(RMul(amplitude, Q(4)), triangle_phase)

\* the `match self.waveform_type` of update's per-pixel loop
UpdateSample(waveform_type, amplitude, phase) ==
    CASE waveform_type = "Sine" -> RMul(amplitude, Sin(phase))
      [] waveform_type = "Square" ->
            IF RLe(Q(0), Sin(phase)) THEN amplitude ELSE RNeg(amplitude)
      [] waveform_type = "Triangle" ->
            LET triangle_phase == Asin(RClamp(RMul(Q(2), Sin(phase)), Q(-1), Q(1)))
            IN  RMul(RMul(amplitude, Q(4)), triangle_phase)

\* mutant of GenerateSample: `%` in place of rem_euclid
GenerateSampleRem(waveform_type, amp, phase) ==
    CASE waveform_type = "Sine" -> RMul(amp, Sin(phase))
      [] waveform_type = "Square" ->
            LET period_pos == RemTrunc1(phase)
            IN  IF RLt(period_pos, <<1, 2>>) THEN amp ELSE RNeg(amp)
      [] waveform_type = "Triangle" ->
            LET period_pos == RemTrunc1(phase)
                triangle_val == IF RLt(period_pos, <<1, 2>>)
                                THEN RSub(RMul(Q(4), period_pos), Q(1))
                                ELSE RSub(Q(3), RMul(Q(4), period_pos))
            IN  RMul(amp, triangle_val)

\* mutant of GenerateSample: the half-period instant belongs to the first half
GenerateSampleClosed(waveform_type, amp, phase) ==
    CASE waveform_type = "Sine" -> RMul(amp, Sin(phase))
      [] waveform_type = "Square" ->
            LET period_pos == RemEuclid1(phase)
            IN  IF RLe(period_pos, <<1, 2>>) THEN amp ELSE RNeg(amp)
      [] waveform_type = "Triangle" ->
            LET period_pos == RemEuclid1(phase)
                triangle_val == IF RLe(period_pos, <<1, 2>>)
                                THEN RSub(RMul(Q(4), period_pos), Q(1))
                                ELSE RSub(Q(3), RMul(Q(4), period_pos))
            IN  RMul(amp, triangle_val)

\* the `match self.waveform_type` of generate_waveform's loop
GenerateSample(waveform_type, amp, phase) ==
    CASE waveform_type = "Sine" -> RMul(amp, Sin(phase))
      [] waveform_type = "Square" ->
            LET period_pos == RemEuclid1(phase)
            IN  IF RLt(period_pos, <<1, 2>>) THEN amp ELSE RNeg(amp)
      [] waveform_type = "Triangle" ->
            LET period_pos == RemEuclid1(phase)
                triangle_val == IF RLt(period_pos, <<1, 2>>)
                                THEN RSub(RMul(Q(4), period_pos), Q(1))
                                ELSE RSub(Q(3), RMul(Q(4), period_pos))
            IN  RMul(amp, triangle_val)

\* TemplateApp::generate_waveform: self with its buffer refilled
GenerateWaveform(self) ==
    LET n == Len(self.waveform)
        hdivs == Q(10)
        time_per_div == RDiv(self.scale_div_ms, Q(1000))
        full_time == RMul(hdivs, time_per_div)
        dt == RDiv(full_time, Q(n - 1))
        center == n \div 2
    IN  [self EXCEPT !.waveform =
            [j \in 1..n |->
                LET i == j - 1
                    t == RMul(Q(i - center), dt)
                IN  GenerateSample(self.waveform_type, self.amplitude,
                                   Phase(self.freq, t))]]

---------------------------------------------------------------------------
(* TemplateApp: its fields, Default, new and save.                         *)

WaveformLen == 512

\* `impl Default for TemplateApp`
Default ==
    [ label          |-> "Hello World!",
      value          |-> <<27, 10>>,
      amplitude      |-> Q(5),
      freq           |-> Q(250),
      scale_div_ms   |-> Q(1),
      scale_div_volt |-> Q(1),
      running        |-> TRUE,
      waveform       |-> [i \in 1..WaveformLen |-> Q(0)],
      phase          |-> Q(0),
      waveform_type  |-> "Sine",
      zoom           |-> Q(1),
      pan_offset_x   |-> Q(0),
      pan_offset_y   |-> Q(0) ]

\* the fields without #[serde(skip)]
Persisted == {"label", "freq", "amplitude", "scale_div_volt", "scale_div_ms"}

\* mutant of Serialized: zoom is not skipped
SerializedWithZoom == Persisted \cup {"zoom"}

\* the fields serde writes and reads
Serialized == Persisted

\* the fields of `app`: every field of TemplateApp but the buffer
Fields == DOMAIN Default \ {"waveform"}

\* the whole struct from the two state variables
Self == [f \in DOMAIN Default |-> IF f = "waveform" THEN waveform ELSE app[f]]

\* eframe::set_value(storage, APP_KEY, self): the serialized struct
Serialize(self) ==
    [kind |-> "blob", fields |-> [f \in Serialized |-> self[f]]]

\* eframe::get_value(storage, APP_KEY).unwrap_or_default() under
\* #[serde(default)]: a missing, unknown or skipped field is Default's
New(stored) ==
    IF stored.kind = "blob"
    THEN [f \in DOMAIN Default |->
            IF f \in Serialized /\ f \in DOMAIN stored.fields
            THEN stored.fields[f] ELSE Default[f]]
    ELSE Default

---------------------------------------------------------------------------
(* update: the widgets of the side panel and the pointer handling of the   *)
(* central panel.  An input is <<>> (absent) or <<v>>.                     *)

\* mutant of Slider: the range limits what the user enters, not the stored value
SliderEdits(value, lo, hi, input) ==
    IF input = <<>> THEN value ELSE RClamp(input[1], lo, hi)

\* egui::Slider::new(&mut value, lo..=hi) with the default clamping
\* (SliderClamping::Always): the value is clamped to the range on every
\* frame, and so is what the user enters
Slider(value, lo, hi, input) ==
    IF input = <<>> THEN RClamp(value, lo, hi) ELSE RClamp(input[1], lo, hi)

\* ComboBox: selectable_value(&mut self.waveform_type, ..)
Select(self, in) ==
    IF in.select = <<>> THEN self ELSE [self EXCEPT !.waveform_type = in.select[1]]

\* `if ui.button("Reset Pan").clicked()`
ResetPan(self, in) ==
    IF in.reset THEN [self EXCEPT !.pan_offset_x = Q(0), !.pan_offset_y = Q(0)] ELSE self

\* the five sliders, in the order of the side panel
Sliders(self, in) ==
    [self EXCEPT
        !.freq           = Slider(@, <<1, 10>>, Q(500), in.freq),
        !.zoom           = Slider(@, Q(1), Q(10), in.zoom),
        !.amplitude      = Slider(@, <<1, 10>>, Q(200), in.amplitude),
        !.scale_div_ms   = Slider(@, <<1, 10>>, Q(200), in.scale_div_ms),
        !.scale_div_volt = Slider(@, <<1, 10>>, Q(200), in.scale_div_volt)]

\* mutant of ScrollZoom: the zoom is not clamped
ScrollZoomFree(zoom, scroll) ==
    IF scroll = 0 THEN zoom
    ELSE IF scroll > 0 THEN RMul(zoom, <<11, 10>>)
    ELSE RDiv(zoom, <<11, 10>>)

\* `if response.hovered()`: the scroll wheel, zoom_speed = 1.1
ScrollZoom(zoom, scroll) ==
    IF scroll = 0 THEN zoom
    ELSE IF scroll > 0 THEN RMin(RMul(zoom, <<11, 10>>), Q(10))
    ELSE RMax(RDiv(zoom, <<11, 10>>), Q(1))

\* mutant of Drag: panning also rescales the offset by the zoom
DragScaled(self, in) ==
    IF in.drag = <<>> THEN self
    ELSE [self EXCEPT !.pan_offset_x = RAdd(@, RMul(in.drag[1][1], self.zoom)),
                      !.pan_offset_y = RAdd(@, RMul(in.drag[1][2], self.zoom))]

\* `if response.dragged()`
Drag(self, in) ==
    IF in.drag = <<>> THEN self
    ELSE [self EXCEPT !.pan_offset_x = RAdd(@, in.drag[1][1]),
                      !.pan_offset_y = RAdd(@, in.drag[1][2])]

\* self (but for the buffer) after update has handled the frame's input
Handled(self, in) ==
    LET s1 == Select(self, in)
        s2 == ResetPan(s1, in)
        s3 == Sliders(s2, in)
        s4 == [s3 EXCEPT !.zoom = ScrollZoom(@, in.scroll)]
    IN  Drag(s4, in)

\* the locals the waveform drawing reads from self
SamplerInputs(self) ==
    [ volts_per_div |-> self.scale_div_volt,
      freq          |-> self.freq,
      amplitude     |-> self.amplitude,
      ms_per_div    |-> self.scale_div_ms ]

\* a frame with no input
NoInput ==
    [ select |-> <<>>, reset |-> FALSE, freq |-> <<>>, zoom |-> <<>>,
      amplitude |-> <<>>, scale_div_ms |-> <<>>, scale_div_volt |-> <<>>,
      scroll |-> 0, drag |-> <<>> ]

\* history: the drag deltas summed since the last Reset Pan
DragSumAfter(sum, in) ==
    LET base == IF in.reset THEN <<Q(0), Q(0)>> ELSE sum
    IN  IF in.drag = <<>> THEN base
        ELSE <<RAdd(base[1], in.drag[1][1]), RAdd(base[2], in.drag[1][2])>>

\* TemplateApp::update, one frame with input `in`; no statement of update
\* reads or writes self.waveform, and update does not call generate_waveform
Update(in) ==
    /\ app' = Handled(app, in)
    /\ waveform' = waveform
    /\ sampled' = <<SamplerInputs(app')>>
    /\ dragSum' = DragSumAfter(dragSum, in)
    /\ UNCHANGED storage

---------------------------------------------------------------------------
(* update: what the central panel paints on a viewport r = [left, top, w,  *)
(* h] from self.  A segment is [a, b, stroke] with points <<x, y>>.        *)

\* `let cell_size = (w / hdivs).min(h / vdivs) * self.zoom`
CellSize(r, self) ==
    LET hdivs == Q(10)
        vdivs == Q(8)
    IN  RMul(RMin(RDiv(r.w, hdivs), RDiv(r.h, vdivs)), self.zoom)

\* the screen position of (0,0): the centre of the panel plus the pan offset
OriginX(r, self) == RAdd(RAdd(r.left, RDiv(r.w, Q(2))), self.pan_offset_x)
OriginY(r, self) == RAdd(RAdd(r.top, RDiv(r.h, Q(2))), self.pan_offset_y)

\* mutant of MinX: the visible range is computed around the panel's centre
MinXCentred(r, self) ==
    RFloor(RDiv(RSub(r.left, RAdd(r.left, RDiv(r.w, Q(2)))), CellSize(r, self))) - 2

\* the visible range in grid coordinates
MinX(r, self) == RFloor(RDiv(RSub(r.left, OriginX(r, self)), CellSize(r, self))) - 2
MaxX(r, self) ==
    RCeil(RDiv(RSub(RAdd(r.left, r.w), OriginX(r, self)), CellSize(r, self))) + 2
MinY(r, self) == RFloor(RDiv(RSub(r.top, OriginY(r, self)), CellSize(r, self))) - 2
MaxY(r, self) ==
    RCeil(RDiv(RSub(RAdd(r.top, r.h), OriginY(r, self)), CellSize(r, self))) + 2

\* `origin_x + (i as f32) * cell_size` and `origin_y + (j as f32) * cell_size`
GridX(r, self, col) == RAdd(OriginX(r, self), RMul(Q(col), CellSize(r, self)))
GridY(r, self, row) == RAdd(OriginY(r, self), RMul(Q(row), CellSize(r, self)))

Segment(x1, y1, x2, y2, pen) == [a |-> <<x1, y1>>, b |-> <<x2, y2>>, stroke |-> pen]

\* a loop `for i in lo..=hi` whose pass i emits emitted[i]: what it emits in all
RECURSIVE ForRange(_, _, _)
ForRange(emitted, lo, hi) ==
    IF lo > hi THEN <<>> ELSE emitted[lo] \o ForRange(emitted, lo + 1, hi)

\* the ticks along the vertical axis, drawn with vertical gridline 0 at x
YAxisTicks(r, self, axis_x) ==
    LET cell_size == CellSize(r, self)
        minor_ticks == 10
        minor_tick_len == RMul(cell_size, <<1, 10>>)
        major_tick_len == RMul(cell_size, <<11, 50>>)
        Minor(div_top, m) ==
            LET frac == RDiv(Q(m), Q(minor_ticks))
                y_tick == RAdd(div_top, RMul(frac, cell_size))
            IN  <<Segment(RSub(axis_x, RDiv(minor_tick_len, Q(2))), y_tick,
                          RAdd(axis_x, RDiv(minor_tick_len, Q(2))), y_tick, "minor_tick")>>
        Div(div) ==
            LET div_top == GridY(r, self, div)
                MinorAt(m) == Minor(div_top, m)
            IN  (IF div # 0
                 THEN <<Segment(RSub(axis_x, RDiv(major_tick_len, Q(2))), div_top,
                                RAdd(axis_x, RDiv(major_tick_len, Q(2))), div_top, "major_tick")>>
                 ELSE <<>>)
                \o ForRange([m \in 1..(minor_ticks - 1) |-> MinorAt(m)], 1, minor_ticks - 1)
    IN  ForRange([div \in MinY(r, self)..MaxY(r, self) |-> Div(div)],
                 MinY(r, self), MaxY(r, self))

\* the ticks along the horizontal axis, drawn with horizontal gridline 0 at y
XAxisTicks(r, self, axis_y) ==
    LET cell_size == CellSize(r, self)
        minor_ticks == 10
        minor_tick_len == RMul(cell_size, <<1, 10>>)
        major_tick_len == RMul(cell_size, <<11, 50>>)
        Minor(div_left, m) ==
            LET frac == RDiv(Q(m), Q(minor_ticks))
                x_tick == RAdd(div_left, RMul(frac, cell_size))
            IN  <<Segment(x_tick, RSub(axis_y, RDiv(minor_tick_len, Q(2))),
                          x_tick, RAdd(axis_y, RDiv(minor_tick_len, Q(2))), "minor_tick")>>
        Div(div) ==
            LET div_left == GridX(r, self, div)
                MinorAt(m) == Minor(div_left, m)
            IN  (IF div # 0
                 THEN <<Segment(div_left, RSub(axis_y, RDiv(major_tick_len, Q(2))),
                                div_left, RAdd(axis_y, RDiv(major_tick_len, Q(2))), "major_tick")>>
                 ELSE <<>>)
                \o ForRange([m \in 1..(minor_ticks - 1) |-> MinorAt(m)], 1, minor_ticks - 1)
    IN  ForRange([div \in MinX(r, self)..MaxX(r, self) |-> Div(div)],
                 MinX(r, self), MaxX(r, self))

\* the stroke of gridline i: `if i == 0 { &strong_stroke } else { &stroke }`
GridStroke(i) == IF i = 0 THEN "strong_stroke" ELSE "stroke"

\* `for i in min_x..=max_x`: the vertical gridlines
VerticalLines(r, self) ==
    LET tick_len == RMul(CellSize(r, self), <<1, 4>>)
        Line(i) ==
            LET x == GridX(r, self, i)
                y == OriginY(r, self)
            IN  <<Segment(x, r.top, x, RAdd(r.top, r.h), GridStroke(i))>>
                \o (IF i = 0
                    THEN YAxisTicks(r, self, x)
                         \o <<Segment(x, RSub(y, RDiv(tick_len, Q(2))),
                                      x, RAdd(y, RDiv(tick_len, Q(2))), "center_tick")>>
                    ELSE <<>>)
    IN  ForRange([i \in MinX(r, self)..MaxX(r, self) |-> Line(i)],
                 MinX(r, self), MaxX(r, self))

\* `for j in min_y..=max_y`: the horizontal gridlines
HorizontalLines(r, self) ==
    LET tick_len == RMul(CellSize(r, self), <<1, 4>>)
        Line(j) ==
            LET y == GridY(r, self, j)
                x == OriginX(r, self)
            IN  <<Segment(r.left, y, RAdd(r.left, r.w), y, GridStroke(j))>>
                \o (IF j = 0
                    THEN XAxisTicks(r, self, y)
                         \o <<Segment(RSub(x, RDiv(tick_len, Q(2))), y,
                                      RAdd(x, RDiv(tick_len, Q(2))), y, "center_tick")>>
                    ELSE <<>>)
    IN  ForRange([j \in MinY(r, self)..MaxY(r, self) |-> Line(j)],
                 MinY(r, self), MaxY(r, self))

\* mutant of PixelTimeMs: the sampler's divisions ignore the zoom
PixelTimeMsUnzoomed(r, self, px) ==
    LET dx == RSub(px, OriginX(r, self))
        dx_grid == RDiv(dx, CellSize(r, [self EXCEPT !.zoom = Q(1)]))
    IN  RMul(dx_grid, self.scale_div_ms)

\* the sampler's time in ms at screen x = px: dx, dx_grid, t_ms
PixelTimeMs(r, self, px) ==
    LET dx == RSub(px, OriginX(r, self))
        dx_grid == RDiv(dx, CellSize(r, self))
    IN  RMul(dx_grid, self.scale_div_ms)

\* `let y = origin_y - (v / volts_per_div) * cell_size`
VoltageY(r, self, volts) ==
    RSub(OriginY(r, self), RMul(RDiv(volts, self.scale_div_volt), CellSize(r, self)))

\* the waveform's points, one every pixel_step = 2 pixels
Points(r, self) ==
    LET pixel_step == Q(2)
        visible_points == RFloor(RDiv(r.w, pixel_step))
        x_start == r.left
    IN  [k \in 1..visible_points |->
            LET i == k - 1
                x == RAdd(x_start, RMul(Q(i), pixel_step))
                t == RDiv(PixelTimeMs(r, self, x), Q(1000))
                v == UpdateSample(self.waveform_type, self.amplitude, Phase(self.freq, t))
            IN  <<x, VoltageY(r, self, v)>>]

\* everything update hands to the painter
Paint(r, self) ==
    [ segments |-> VerticalLines(r, self) \o HorizontalLines(r, self),
      points   |-> Points(r, self) ]

---------------------------------------------------------------------------
(* The application: startup, saving, and frames.                           *)

MaxZoomDen == 11
MaxPan == 6

\* what the storage may hold at a start: nothing, an unparseable value, a
\* blob of in-range settings, a blob of out-of-range settings that also
\* carries a field the struct skips, and a blob that lacks fields
InitialStorage ==
    { [kind |-> "none"],
      [kind |-> "corrupt"],
      [kind |-> "blob",
       fields |-> [label |-> "bench", freq |-> Q(250), amplitude |-> Q(20),
                   scale_div_volt |-> Q(1), scale_div_ms |-> Q(2)]],
      [kind |-> "blob",
       fields |-> [label |-> "bench", freq |-> Q(1000), amplitude |-> Q(20),
                   scale_div_volt |-> Q(0), scale_div_ms |-> Q(2), zoom |-> Q(50)]],
      [kind |-> "blob",
       fields |-> [label |-> "bench", scale_div_volt |-> Q(0)]] }

\* what the user enters on each slider; some of it outside the range
FreqInputs == {Q(1000)}
ZoomInputs == {Q(20)}
AmplitudeInputs == {Q(20)}
TimeDivInputs == {Q(2)}
VoltsDivInputs == {Q(0)}
ScrollInputs == {-1, 1}
DragInputs == {<<Q(3), Q(-2)>>}

\* the rectangle allocated to the central panel
UnitRect == [left |-> Q(0), top |-> Q(0), w |-> Q(20), h |-> Q(16)]

\* one evaluation of both samplers on the same time, frequency and amplitude
Evaluate(waveform_type, amplitude, freq, secs) ==
    [ waveform_type |-> waveform_type, amplitude |-> amplitude, freq |-> freq, t |-> secs,
      update   |-> UpdateSample(waveform_type, amplitude, Phase(freq, secs)),
      generate |-> GenerateSample(waveform_type, amplitude, Phase(freq, secs)) ]

\* inputs on which the samplers have not been evaluated yet
Inputs(waveform_type, amplitude, freq, secs) ==
    [ waveform_type |-> waveform_type, amplitude |-> amplitude, freq |-> freq, t |-> secs,
      update |-> <<>>, generate |-> <<>> ]

NoProbe == Inputs(Default.waveform_type, Default.amplitude, Default.freq, Q(0))

\* the struct TemplateApp::new returns becomes the state
Started(self) ==
    /\ app' = [f \in Fields |-> self[f]]
    /\ waveform' = self.waveform
    /\ sampled' = <<>>
    /\ dragSum' = <<Q(0), Q(0)>>

Init ==
    /\ storage \in InitialStorage
    /\ app = [f \in Fields |-> New(storage)[f]]
    /\ waveform = New(storage).waveform
    /\ sampled = <<>>
    /\ dragSum = <<Q(0), Q(0)>>
    /\ rect = UnitRect
    /\ painted = <<>>
    /\ probe = NoProbe

\* the process is started: TemplateApp::new(cc)
Launch ==
    /\ Started(New(storage))
    /\ UNCHANGED <<storage, rect, painted, probe>>

\* the framework calls save (periodically, and before shutdown)
Save ==
    /\ storage' = Serialize(Self)
    /\ UNCHANGED <<waveform, app, sampled, dragSum, rect, painted, probe>>

\* a clean shutdown and the next start: save, then new on what was saved
Restart ==
    /\ storage' = Serialize(Self)
    /\ Started(New(Serialize(Self)))
    /\ UNCHANGED <<rect, painted, probe>>

\* the model's bounds on the zoom's denominator and on the pan offset
InBounds(self) ==
    /\ Den(self.zoom) <= MaxZoomDen
    /\ RLe(Q(-MaxPan), self.pan_offset_x) /\ RLe(self.pan_offset_x, Q(MaxPan))
    /\ RLe(Q(-MaxPan), self.pan_offset_y) /\ RLe(self.pan_offset_y, Q(MaxPan))

\* one call of update on a frame whose painter output is not recorded
Frame(in) ==
    /\ Update(in)
    /\ InBounds(app')
    /\ UNCHANGED <<rect, painted, probe>>

Idle == Frame(NoInput)
SelectWaveform == \E w \in WaveformType : Frame([NoInput EXCEPT !.select = <<w>>])
ResetPanClick == Frame([NoInput EXCEPT !.reset = TRUE])
MoveFreq == \E v \in FreqInputs : Frame([NoInput EXCEPT !.freq = <<v>>])
MoveZoom == \E v \in ZoomInputs : Frame([NoInput EXCEPT !.zoom = <<v>>])
MoveAmplitude == \E v \in AmplitudeInputs : Frame([NoInput EXCEPT !.amplitude = <<v>>])
MoveTimeDiv == \E v \in TimeDivInputs : Frame([NoInput EXCEPT !.scale_div_ms = <<v>>])
MoveVoltsDiv == \E v \in VoltsDivInputs : Frame([NoInput EXCEPT !.scale_div_volt = <<v>>])
Scroll == \E s \in ScrollInputs : Frame([NoInput EXCEPT !.scroll = s])
DragPan == \E d \in DragInputs : Frame([NoInput EXCEPT !.drag = <<d>>])
ScrollDrag ==
    \E s \in ScrollInputs, d \in DragInputs :
        Frame([NoInput EXCEPT !.scroll = s, !.drag = <<d>>])

Next ==
    \/ Launch
    \/ Save
    \/ Restart
    \/ Idle
    \/ SelectWaveform
    \/ ResetPanClick
    \/ MoveFreq
    \/ MoveZoom
    \/ MoveAmplitude
    \/ MoveTimeDiv
    \/ MoveVoltsDiv
    \/ Scroll
    \/ DragPan
    \/ ScrollDrag

Spec == Init /\ [][Next]_vars

---------------------------------------------------------------------------
(* Properties of the application (checked under Spec).                     *)

\* the ranges of the four parameter sliders
InSliderRanges(freq, amplitude, ms, volts) ==
    /\ RLe(<<1, 10>>, freq) /\ RLe(freq, Q(500))
    /\ RLe(<<1, 10>>, amplitude) /\ RLe(amplitude, Q(200))
    /\ RLe(<<1, 10>>, ms) /\ RLe(ms, Q(200))
    /\ RLe(<<1, 10>>, volts) /\ RLe(volts, Q(200))

\* C3 (as claimed): after every call of update the buffer has its 512
\* elements and holds the voltages generate_waveform computes from the
\* current frequency, amplitude, time/div and waveform kind.
C3_BufferRegenerated ==
    sampled # <<>> =>
        /\ Len(waveform) = WaveformLen
        /\ waveform = GenerateWaveform(Self).waveform

\* C4: a save followed by a load restores label, freq, amplitude,
\* scale_div_volt and scale_div_ms to the saved values and resets value,
\* running, the buffer, phase, waveform_type, zoom and both pan offsets to
\* their defaults, whatever they held when saved.
C4_SaveLoadRoundTrip ==
    [][Restart =>
        /\ \A f \in {"label", "freq", "amplitude", "scale_div_volt", "scale_div_ms"} :
                app'[f] = app[f]
        /\ \A f \in {"value", "running", "phase", "waveform_type", "zoom",
                     "pan_offset_x", "pan_offset_y"} :
                app'[f] = Default[f]
        /\ waveform' = Default.waveform]_vars

\* a freshly started state that restored a volts/div only a slider can have
\* produced, from a blob that save wrote
C4_Witness ==
    /\ sampled = <<>>
    /\ storage = Serialize(Self)
    /\ app.scale_div_volt = <<1, 10>>
    /\ app.amplitude = Q(20)
    /\ app.zoom = Q(1)

\* C5: in every reachable state 1 <= zoom <= 10, and a zoom-in at 10 and a
\* zoom-out at 1 leave the zoom at the bound.
C5_ZoomBounded ==
    /\ RLe(Q(1), app.zoom) /\ RLe(app.zoom, Q(10))
    /\ RLe(ScrollZoom(app.zoom, 1), Q(10))
    /\ RLe(Q(1), ScrollZoom(app.zoom, -1))
    /\ app.zoom = Q(10) => ScrollZoom(app.zoom, 1) = Q(10)
    /\ app.zoom = Q(1) => ScrollZoom(app.zoom, -1) = Q(1)

\* frames have brought the zoom to its upper bound in a run started from a
\* blob that carries a zoom of 50
C5_Witness ==
    /\ app.zoom = Q(10)
    /\ sampled # <<>>
    /\ storage.kind = "blob"
    /\ "zoom" \in DOMAIN storage.fields
    /\ storage.fields.zoom = Q(50)

\* C6 (as claimed): in every reachable state, the state right after loading
\* included, freq is in [0.1, 500] and amplitude, time/div and volts/div
\* are in [0.1, 200].
C6_AlwaysInRange ==
    InSliderRanges(app.freq, app.amplitude, app.scale_div_ms, app.scale_div_volt)

\* C6 (amended): once update has run since the start, the four fields are
\* within the slider ranges, and so is every value the sampler has read;
\* volts_per_div, the divisor, is not zero.
C6_InRangeOnceDrawn ==
    sampled # <<>> =>
        /\ InSliderRanges(app.freq, app.amplitude, app.scale_div_ms, app.scale_div_volt)
        /\ InSliderRanges(sampled[1].freq, sampled[1].amplitude,
                          sampled[1].ms_per_div, sampled[1].volts_per_div)
        /\ sampled[1].volts_per_div # Q(0)

\* a frame has run on settings loaded with a volts/div of 0
C6_Witness ==
    /\ sampled # <<>>
    /\ storage.kind = "blob"
    /\ "freq" \in DOMAIN storage.fields
    /\ storage.fields.scale_div_volt = Q(0)
    /\ storage.fields.freq = Q(1000)
    /\ app.label = "bench"
    /\ sampled[1].volts_per_div = <<1, 10>>
    /\ sampled[1].freq = Q(500)

\* the frames that carry no drag and no Reset Pan click
NoPanFrame ==
    \/ Idle
    \/ SelectWaveform
    \/ MoveFreq
    \/ MoveZoom
    \/ MoveAmplitude
    \/ MoveTimeDiv
    \/ MoveVoltsDiv
    \/ Scroll

\* C10: the pan offset is the component-wise sum of the drag deltas received
\* since the last Reset Pan (or the start); a frame with a Reset Pan click
\* differs from the frame without it only in the two pan components, which
\* are 0; zoom and parameter changes leave the pan offset unchanged.
C10_PanIsDragSum ==
    /\ [](app.pan_offset_x = dragSum[1] /\ app.pan_offset_y = dragSum[2])
    /\ [][ /\ ResetPanClick =>
                app' = [Handled(app, NoInput) EXCEPT !.pan_offset_x = Q(0),
                                                     !.pan_offset_y = Q(0)]
           /\ DragPan =>
                \E d \in DragInputs :
                    /\ app'.pan_offset_x = RAdd(app.pan_offset_x, d[1])
                    /\ app'.pan_offset_y = RAdd(app.pan_offset_y, d[2])
           /\ NoPanFrame =>
                /\ app'.pan_offset_x = app.pan_offset_x
                /\ app'.pan_offset_y = app.pan_offset_y ]_vars

\* two drags, a scroll and a slider move since the last Reset Pan
C10_Witness ==
    /\ app.pan_offset_x = Q(6)
    /\ app.pan_offset_y = Q(-4)
    /\ app.zoom = <<100, 11>>
    /\ app.freq = Q(500)

---------------------------------------------------------------------------
(* The samplers as functions: both are evaluated on times, frequencies and *)
(* amplitudes drawn from bounded sets (SampleSpec).                        *)

MaxTick == 30

\* the ends of the slider ranges and the defaults
ProbeFreqs == {<<1, 10>>, Q(250), Q(500)}
ProbeAmplitudes == {<<1, 10>>, Q(5), Q(200)}
\* times in steps of 1/12000 s: 1/48 of a period at 250 Hz, 1/24 at 500 Hz
ProbeTimes == {Norm(tick, 12000) : tick \in -MaxTick..MaxTick}

InitSample ==
    /\ storage = [kind |-> "none"]
    /\ app = [f \in Fields |-> Default[f]]
    /\ waveform = Default.waveform
    /\ sampled = <<>>
    /\ dragSum = <<Q(0), Q(0)>>
    /\ rect = UnitRect
    /\ painted = <<>>
    /\ \E wt \in WaveformType, amp \in ProbeAmplitudes, fr \in ProbeFreqs, at \in ProbeTimes :
            probe = Inputs(wt, amp, fr, at)

Sample ==
    /\ probe.update = <<>>
    /\ probe' = Evaluate(probe.waveform_type, probe.amplitude, probe.freq, probe.t)
    /\ UNCHANGED <<waveform, app, storage, sampled, dragSum, rect, painted>>

NextSample == Sample

SampleSpec == InitSample /\ [][NextSample]_vars

\* the probe's phase, in turns
ProbePhase == Phase(probe.freq, probe.t)

\* C1: at t = 0 the per-pixel sampler of update returns 0 for Sine,
\* +amplitude for Square and 0 for Triangle, for every amplitude and
\* frequency.
C1_SampleAtZero ==
    (probe.update # <<>> /\ probe.t = Q(0)) =>
        CASE probe.waveform_type = "Sine" -> probe.update = Q(0)
          [] probe.waveform_type = "Square" -> probe.update = probe.amplitude
          [] probe.waveform_type = "Triangle" -> probe.update = Q(0)

C1_Witness ==
    /\ probe.t = Q(0)
    /\ probe.waveform_type = "Square"
    /\ probe.amplitude = Q(200)
    /\ probe.freq = <<1, 10>>
    /\ probe.update = Q(200)

C9_Divergent ==
    probe.update # <<>> =>
        /\ probe.waveform_type = "Sine" => probe.update = probe.generate
        /\ (probe.waveform_type = "Square" /\ RemEuclid1(ProbePhase) = <<1, 2>>) =>
                /\ probe.update = probe.amplitude
                /\ probe.generate = RNeg(probe.amplitude)
                /\ probe.update # probe.generate
        /\ (probe.waveform_type = "Triangle" /\ RemEuclid1(ProbePhase) = Q(0)) =>
                /\ probe.update = Q(0)
                /\ probe.generate = RNeg(probe.amplitude)
                /\ probe.update # probe.generate

\* a square wave sampled half a period after t = 0
C9_Witness ==
    /\ probe.waveform_type = "Square"
    /\ ProbePhase = <<1, 2>>
    /\ probe.update = Q(5)
    /\ probe.generate = Q(-5)

---------------------------------------------------------------------------
(* The painting as a function of the viewport, the zoom, the pan offset    *)
(* and the scales, each drawn from a bounded set (DrawSpec).               *)

\* the division indices examined are -MaxIndex..MaxIndex
MaxIndex == 24

Viewports ==
    { [left |-> Q(0), top |-> Q(0), w |-> Q(20), h |-> Q(16)],
      [left |-> Q(5), top |-> Q(3), w |-> Q(25), h |-> Q(24)],
      [left |-> Q(5), top |-> Q(3), w |-> Q(30), h |-> Q(16)] }

DrawZooms == {Q(1), <<3, 2>>, Q(10)}
DrawPanX == {Q(-17), Q(0), <<17, 2>>}
DrawPanY == {Q(0), Q(15)}
DrawTimeDivs == {Q(1), <<1, 10>>}
DrawVoltsDivs == {<<1, 10>>, Q(2)}

InitDraw ==
    /\ storage = [kind |-> "none"]
    /\ \E wt \in WaveformType, z \in DrawZooms, px \in DrawPanX, py \in DrawPanY,
          ms \in DrawTimeDivs, vd \in DrawVoltsDivs :
            app = [[f \in Fields |-> Default[f]] EXCEPT
                        !.waveform_type = wt, !.zoom = z,
                        !.pan_offset_x = px, !.pan_offset_y = py,
                        !.scale_div_ms = ms, !.scale_div_volt = vd]
    /\ waveform = Default.waveform
    /\ sampled = <<>>
    /\ dragSum = <<app.pan_offset_x, app.pan_offset_y>>
    /\ rect = UnitRect
    /\ painted = <<>>
    /\ probe = NoProbe

\* one call of update, without input, on viewport r; the painter output is recorded
Repaint ==
    /\ painted = <<>>
    /\ \E r \in Viewports :
            /\ Update(NoInput)
            /\ rect' = r
            /\ painted' = <<Paint(r, app')>>
    /\ UNCHANGED probe

NextDraw == Repaint

DrawSpec == InitDraw /\ [][NextDraw]_vars

\* the gridlines among the painted segments, in the order painted
IsGridStroke(seg) == seg.stroke \in {"stroke", "strong_stroke"}
IsVertical(seg) == IsGridStroke(seg) /\ seg.a[1] = seg.b[1]
IsHorizontal(seg) == IsGridStroke(seg) /\ seg.a[2] = seg.b[2]
PaintedVertical == SelectSeq(painted[1].segments, IsVertical)
PaintedHorizontal == SelectSeq(painted[1].segments, IsHorizontal)

\* the screen x of column col, resp. the screen y of row, is inside the viewport
VisibleX(col) ==
    /\ RLe(rect.left, GridX(rect, app, col))
    /\ RLe(GridX(rect, app, col), RAdd(rect.left, rect.w))
VisibleY(row) ==
    /\ RLe(rect.top, GridY(rect, app, row))
    /\ RLe(GridY(rect, app, row), RAdd(rect.top, rect.h))

\* the voltage the per-pixel sampler returns at time_ms milliseconds
VoltsAtMs(time_ms) ==
    UpdateSample(app.waveform_type, app.amplitude, Phase(app.freq, RDiv(time_ms, Q(1000))))

C7_VisibleGridlinesDrawn ==
    painted # <<>> =>
        /\ \A i \in -MaxIndex..MaxIndex :
                /\ VisibleX(i) => MinX(rect, app) <= i /\ i <= MaxX(rect, app)
                /\ VisibleY(i) => MinY(rect, app) <= i /\ i <= MaxY(rect, app)
        /\ Len(PaintedVertical) = MaxX(rect, app) - MinX(rect, app) + 1
        /\ \A k \in 1..Len(PaintedVertical) :
                LET i == MinX(rect, app) + k - 1
                    x == GridX(rect, app, i)
                IN  /\ PaintedVertical[k].a = <<x, rect.top>>
                    /\ PaintedVertical[k].b = <<x, RAdd(rect.top, rect.h)>>
                    /\ PaintedVertical[k].stroke = "strong_stroke" <=> i = 0
        /\ Len(PaintedHorizontal) = MaxY(rect, app) - MinY(rect, app) + 1
        /\ \A k \in 1..Len(PaintedHorizontal) :
                LET j == MinY(rect, app) + k - 1
                    y == GridY(rect, app, j)
                IN  /\ PaintedHorizontal[k].a = <<rect.left, y>>
                    /\ PaintedHorizontal[k].b = <<RAdd(rect.left, rect.w), y>>
                    /\ PaintedHorizontal[k].stroke = "strong_stroke" <=> j = 0

\* a painted frame panned so far that the vertical axis is outside the
\* viewport while other vertical gridlines are inside it, and the horizontal
\* axis is inside it and painted with the highlighted stroke
C7_Witness ==
    /\ painted # <<>>
    /\ app.pan_offset_x = Q(-17)
    /\ ~VisibleX(0)
    /\ \E i \in -MaxIndex..MaxIndex : VisibleX(i)
    /\ VisibleY(0)
    /\ \E k \in 1..Len(PaintedHorizontal) : PaintedHorizontal[k].stroke = "strong_stroke"

=============================================================================
